---- MODULE Spec2Model ----
(***************************************************************************)
(* Model of hyperparameter_search_BCE.py: run_hyper, the resumable grid    *)
(* sweep over LSTM hyperparameters, and the CSV result store it reads once *)
(* and rewrites after every combination.                                   *)
(*                                                                         *)
(* Values.  A Python int is an integer, a Python bool a BOOLEAN.  A Python *)
(* float is named by the decimal digits of its repr, the integer digit     *)
(* first: <<0,0,0,0,1>> is 0.0001 and <<0,2>> is 0.2.  All floats of the   *)
(* program lie in [0, 1): learning rates, dropout rates and AUC scores.    *)
(* A CSV cell is text: the decimal string of an int, "True"/"False" for a  *)
(* bool, and the digits of the repr for a float.                           *)
(***************************************************************************)
EXTENDS Integers, Sequences, FiniteSets, TLC

VARIABLES
    file,                         \* the result file at results_path
    pc,                           \* position of the run_hyper invocation
    axes,                         \* the six hyperparameter lists
    hyperparameter_combinations,  \* list(product(...))
    existing_results_df,          \* records loaded at start
    completed_combinations,       \* set of tuples already recorded
    new_results,                  \* records computed in this invocation
    combinations_to_run,          \* pending combinations
    i,                            \* position of the for loop in combinations_to_run
    auc,                          \* value returned by evaluate_model
    results_df,                   \* the frame handed to to_csv, and returned
    file_at_start,                \* history: the file when the invocation started
    train_log,                    \* history: combinations passed to initialize_model
    eval_log,                     \* history: combinations passed to evaluate_model
    last_flush,                   \* history: the file as the last completed to_csv left it
    flushes,                      \* history: completed to_csv calls of this invocation
    outcome,                      \* history: how the last ended invocation ended
    prev_outcome,                 \* history: how the invocation before ended, if it returned or stopped between flushes
    done_at_end,                  \* history: combinations an invocation stopped between flushes held as stored
    n_at_end,                     \* history: number of records it held as stored
    prev_flush,                   \* history: the file as it was before the last completed to_csv
    prep_calls,                   \* history: calls of prepare.full_prep in this invocation
    call,                         \* the driver: number of run_hyper calls started
    accessed                      \* the driver: [path, by, how] accesses of result files

locals == <<existing_results_df, completed_combinations, new_results,
            combinations_to_run, i, auc, results_df>>
history == <<file_at_start, train_log, eval_log, last_flush, flushes,
             outcome, prev_outcome, done_at_end, n_at_end>>
history2 == <<prev_flush, prep_calls>>
driver == <<call, accessed>>
vars == <<file, pc, axes, hyperparameter_combinations, locals, history, history2, driver>>

-----------------------------------------------------------------------------
(* Bounds *)

\* Longest pre-seeded result file, in records.
MaxSeed == 2

\* How many leading values of each axis the modelled sweep uses.
SweepCap == <<2, 2, 1, 1, 1, 1>>

-----------------------------------------------------------------------------
(* The hyperparameter grid *)

num_layers_lst == <<1, 2>>
bidirectional_lst == <<FALSE, TRUE>>
LSTM_size_lst == <<16, 32, 64>>
batch_size_lst == <<128, 256, 512>>
learning_rate_lst == << <<0, 0, 0, 0, 1>>, <<0, 0, 0, 1>> >>
dropout_lst == << <<0, 2>>, <<0, 4>> >>

Grid == <<num_layers_lst, bidirectional_lst, LSTM_size_lst, batch_size_lst,
          learning_rate_lst, dropout_lst>>

SweptAxes == [k \in 1..6 |-> SubSeq(Grid[k], 1, SweepCap[k])]

\* itertools.product in the wrong order: the first list varies fastest.
RECURSIVE productFirstFastest(_)
productFirstFastest(lists) ==
    IF lists = <<>> THEN << <<>> >>
    ELSE LET rest == productFirstFastest(Tail(lists))
             h == Head(lists)
         IN [n \in 1..(Len(h) * Len(rest)) |->
                <<h[((n - 1) % Len(h)) + 1]>> \o rest[((n - 1) \div Len(h)) + 1]]

\* itertools.product: nested iteration, the last list varying fastest.
RECURSIVE product(_)
product(lists) ==
    IF lists = <<>> THEN << <<>> >>
    ELSE LET rest == product(Tail(lists))
             h == Head(lists)
         IN [n \in 1..(Len(h) * Len(rest)) |->
                <<h[((n - 1) \div Len(rest)) + 1]>> \o rest[((n - 1) % Len(rest)) + 1]]

-----------------------------------------------------------------------------
(* Records and the CSV text of the result file *)

Columns == <<"num_layers", "bidirectional", "lstm_size", "batch_size",
             "learning_rate", "dropout", "auc_score">>

\* The dict appended to new_results for a combination and its AUC.
Record(c, a) ==
    [num_layers |-> c[1], bidirectional |-> c[2], lstm_size |-> c[3],
     batch_size |-> c[4], learning_rate |-> c[5], dropout |-> c[6],
     auc_score |-> a]

\* tuple(row) over the six hyperparameter columns.
Combination(r) ==
    <<r.num_layers, r.bidirectional, r.lstm_size, r.batch_size,
      r.learning_rate, r.dropout>>

CombinationsOf(df) == [k \in 1..Len(df) |-> Combination(df[k])]

Range(s) == {s[k] : k \in 1..Len(s)}

IntValues == Range(num_layers_lst) \cup Range(LSTM_size_lst) \cup Range(batch_size_lst)

\* The decimal text of each int of the grid.
IntText == [n \in IntValues |-> ToString(n)]

format_int(n) == IntText[n]
parse_int(s) == CHOOSE n \in IntValues : IntText[n] = s

format_bool(b) == IF b THEN "True" ELSE "False"
parse_bool(s) == (s = "True")

\* to_csv writes a float as its repr: the digits that name it.
format_float(x) == x

RECURSIVE StripZeros(_)
StripZeros(d) ==
    IF Len(d) > 2 /\ d[Len(d)] = 0 THEN StripZeros(SubSeq(d, 1, Len(d) - 1)) ELSE d

\* read_csv's default float parser.  It accumulates at most 17 digits of the
\* text, the integer digit included, and ignores the rest; the kept digits
\* divided by the power of ten give the double.  For texts of at most 16
\* decimals in [0.1, 0.9) the kept digits name that double exactly, so a repr
\* of 17 decimals comes back as the neighbouring double of 16 decimals.
precise_xstrtod(d) ==
    StripZeros(SubSeq(d, 1, IF Len(d) < 17 THEN Len(d) ELSE 17))

\* The six columns run_hyper selects from the loaded frame.
KeyColumns == SubSeq(Columns, 1, 6)

\* NaN, the value of a missing cell; to_csv writes it as an empty cell.
NaN == <<>>

\* The frame's record has an auc_score column.
HasAuc(r) == "auc_score" \in DOMAIN r

\* The columns of a frame: those of its records (all seven for an empty frame).
ColumnsOf(df) == IF Len(df) = 0 \/ HasAuc(df[1]) THEN Columns ELSE KeyColumns

format_row(r) ==
    <<format_int(r.num_layers), format_bool(r.bidirectional), format_int(r.lstm_size),
      format_int(r.batch_size), format_float(r.learning_rate), format_float(r.dropout)>>
    \o (IF HasAuc(r) THEN <<format_float(r.auc_score)>> ELSE <<>>)

\* Position of the named column in the header line, 0 when it has none.
ColumnIndex(header, name) ==
    IF \E k \in 1..Len(header) : header[k] = name
    THEN CHOOSE k \in 1..Len(header) : header[k] = name
    ELSE 0

\* One line of a file whose six key columns are at positions at[1..6] and
\* whose auc_score column is at position at[7], if it has one.
parse_row(at, row) ==
    LET c == <<parse_int(row[at[1]]), parse_bool(row[at[2]]), parse_int(row[at[3]]),
               parse_int(row[at[4]]), precise_xstrtod(row[at[5]]),
               precise_xstrtod(row[at[6]])>>
    IN IF at[7] > 0
       THEN Record(c, precise_xstrtod(row[at[7]]))
       ELSE [num_layers |-> c[1], bidirectional |-> c[2], lstm_size |-> c[3],
             batch_size |-> c[4], learning_rate |-> c[5], dropout |-> c[6]]

AbsentFile == [exists |-> FALSE, header |-> <<>>, rows |-> <<>>]

\* open(path, "w"): the file exists and holds zero bytes.
TruncatedFile == [exists |-> TRUE, header |-> <<>>, rows |-> <<>>]

\* A to_csv that leaves out the newest record.
to_csv_drop_last(df) ==
    [exists |-> TRUE, header |-> ColumnsOf(df),
     rows |-> [k \in 1..(IF Len(df) = 0 THEN 0 ELSE Len(df) - 1) |-> format_row(df[k])]]

\* DataFrame.to_csv(results_path, index=False): the header line, then one line per record.
to_csv(df) ==
    [exists |-> TRUE, header |-> ColumnsOf(df),
     rows |-> [k \in 1..Len(df) |-> format_row(df[k])]]

\* An existence test that always says yes.
path_exists_always(f) == TRUE

\* os.path.exists(results_path)
path_exists(f) == f.exists

\* pd.read_csv raises on a file it cannot parse (zero bytes: EmptyDataError).
CanParse(f) == f.header # <<>>

\* existing_results_df[[six columns]] raises KeyError unless all six are there.
has_key_columns(f) ==
    \A k \in 1..Len(KeyColumns) : \E j \in 1..Len(f.header) : f.header[j] = KeyColumns[k]

\* pd.read_csv(results_path): one record per line, columns typed by inference.
read_csv(f) ==
    LET at == IF f.header = Columns THEN [k \in 1..7 |-> k]
              ELSE [k \in 1..7 |-> ColumnIndex(f.header, Columns[k])]
    IN [k \in 1..Len(f.rows) |-> parse_row(at, f.rows[k])]

\* concat aligns the columns of the frames: a record without auc_score gets NaN
\* as soon as another record has one.
Aligned(df) ==
    IF \E k \in 1..Len(df) : HasAuc(df[k])
    THEN [k \in 1..Len(df) |->
            IF HasAuc(df[k]) THEN df[k] ELSE Record(Combination(df[k]), NaN)]
    ELSE df

\* A concat that puts the new records first.
concat_new_first(a, b) == Aligned(b \o a)

\* pd.concat([a, b], ignore_index=True)
concat(a, b) == Aligned(a \o b)

\* set(tuple(row) for row in df[[six columns]].itertuples(index=False, name=None))
completed_of(df) == {Combination(df[k]) : k \in 1..Len(df)}

\* A filter that skips nothing.
filter_none(all, completed) == all

\* A filter that matches on the number of layers alone, not on the whole tuple.
filter_by_layers(all, completed) ==
    LET keep(c) == \A d \in completed : d[1] # c[1] IN SelectSeq(all, keep)

\* [comb for comb in hyperparameter_combinations if comb not in completed_combinations]
filter_completed(all, completed) ==
    LET keep(c) == c \notin completed IN SelectSeq(all, keep)

-----------------------------------------------------------------------------
(* Inputs *)

\* AUC scores evaluate_model may return: 0.8, whose repr read_csv reads back
\* exactly, and 5/17 = 0.29411764705882354, whose repr has 17 decimals.
AucVals == { <<0, 8>>,
             <<0, 2, 9, 4, 1, 1, 7, 6, 4, 7, 0, 5, 8, 8, 2, 3, 5, 4>> }

\* A combination of the full grid that the modelled sweep does not enumerate.
ForeignCombination ==
    <<num_layers_lst[1], bidirectional_lst[1], LSTM_size_lst[2], batch_size_lst[1],
      learning_rate_lst[1], dropout_lst[1]>>

SeedRows ==
    {format_row(Record(c, a)) :
        c \in Range(product(SweptAxes)) \cup {ForeignCombination}, a \in AucVals}

RowKey(row) == SubSeq(row, 1, 6)

\* Result files a sweep may find: up to MaxSeed records, no combination twice.
SeedFiles ==
    {[exists |-> TRUE, header |-> Columns, rows |-> s] :
        s \in {t \in UNION {[1..n -> SeedRows] : n \in 0..MaxSeed} :
                 \A j, k \in 1..Len(t) : j # k => RowKey(t[j]) # RowKey(t[k])}}

\* A row of a file that has no column at position k.
WithoutCell(row, k) == SubSeq(row, 1, k - 1) \o SubSeq(row, k + 1, Len(row))

\* Result files of one record that lack a column: the metric, or the dropout rate.
MissingColumnFiles ==
    {[exists |-> TRUE, header |-> WithoutCell(Columns, k), rows |-> <<WithoutCell(r, k)>>] :
        r \in SeedRows, k \in {6, 7}}

-----------------------------------------------------------------------------
(* run_hyper *)

NoLocals ==
    /\ existing_results_df' = <<>>
    /\ completed_combinations' = {}
    /\ new_results' = <<>>
    /\ combinations_to_run' = <<>>
    /\ i' = 0
    /\ auc' = <<>>
    /\ results_df' = <<>>

Init ==
    /\ file \in {AbsentFile} \cup SeedFiles \cup MissingColumnFiles
    /\ pc = "idle"
    /\ axes = SweptAxes
    /\ hyperparameter_combinations = <<>>
    /\ existing_results_df = <<>>
    /\ completed_combinations = {}
    /\ new_results = <<>>
    /\ combinations_to_run = <<>>
    /\ i = 0
    /\ auc = <<>>
    /\ results_df = <<>>
    /\ file_at_start = file
    /\ train_log = <<>>
    /\ eval_log = <<>>
    /\ last_flush = file
    /\ flushes = 0
    /\ outcome = "none"
    /\ prev_outcome = "none"
    /\ done_at_end = {}
    /\ n_at_end = 0
    /\ prev_flush = file
    /\ prep_calls = 0
    /\ call = 0
    /\ accessed = {}

\* What the invocation holds as stored when it ends: the loaded records and
\* the records it computed and flushed.
StoredNow == completed_combinations \cup completed_of(new_results)

\* The outcomes after which the store is as the last completed flush left it.
StoppedBetween == {"failed", "killed_between"}

Ends(how) ==
    /\ pc' = "idle"
    /\ outcome' = how
    /\ done_at_end' = IF how \in StoppedBetween THEN StoredNow ELSE {}
    /\ n_at_end' = IF how \in StoppedBetween
                       THEN Len(existing_results_df) + Len(new_results) ELSE 0

\* The process is gone and nothing of it is left but the file: its memory,
\* and what was recorded of its steps.
Gone ==
    /\ NoLocals
    /\ file_at_start' = file
    /\ train_log' = <<>>
    /\ eval_log' = <<>>
    /\ flushes' = 0
    /\ prev_outcome' = "none"
    /\ prev_flush' = file
    /\ prep_calls' = 0

\* list(product(...)) over the swept axes, computed once.
SweptProduct == product(SweptAxes)

\* run_hyper is called: full_prep, the grids, list(product(...)).
Prepare ==
    /\ pc = "idle"
    /\ pc' = "load"
    /\ hyperparameter_combinations' = IF axes = SweptAxes THEN SweptProduct ELSE product(axes)
    /\ NoLocals
    /\ file_at_start' = file
    /\ train_log' = <<>>
    /\ eval_log' = <<>>
    /\ last_flush' = file
    /\ flushes' = 0
    /\ prev_outcome' = IF outcome \in StoppedBetween \cup {"returned"} THEN outcome ELSE "none"
    /\ outcome' = "running"
    /\ UNCHANGED <<file, axes, done_at_end, n_at_end>>
    /\ prev_flush' = file
    /\ prep_calls' = 1
    /\ UNCHANGED driver

\* What follows the load in both branches: new_results = [], the resume filter.
Filtered(completed) ==
    /\ completed_combinations' = completed
    /\ new_results' = <<>>
    /\ combinations_to_run' = filter_completed(hyperparameter_combinations, completed)
    /\ i' = 1
    /\ pc' = "train"
    /\ UNCHANGED <<file, axes, hyperparameter_combinations, auc, results_df, history>>
    /\ UNCHANGED <<history2, driver>>

\* The result file exists, parses and has the six key columns.
LoadExisting ==
    /\ pc = "load"
    /\ path_exists(file)
    /\ CanParse(file)
    /\ has_key_columns(file)
    /\ existing_results_df' = read_csv(file)
    /\ Filtered(completed_of(read_csv(file)))

\* The result file exists and pd.read_csv raises, or the column selection does.
LoadFails ==
    /\ pc = "load"
    /\ path_exists(file)
    /\ ~(CanParse(file) /\ has_key_columns(file))
    /\ Ends("load_failed")
    /\ UNCHANGED <<file, axes, hyperparameter_combinations, locals,
                   file_at_start, train_log, eval_log, last_flush, flushes, prev_outcome>>
    /\ UNCHANGED <<history2, driver>>

\* No result file: an empty frame and an empty completed set.
LoadAbsent ==
    /\ pc = "load"
    /\ ~path_exists(file)
    /\ existing_results_df' = <<>>
    /\ Filtered({})

\* A loop that prepares the inputs again for each combination.
TrainOkPrepares ==
    /\ pc = "train"
    /\ i <= Len(combinations_to_run)
    /\ train_log' = Append(train_log, combinations_to_run[i])
    /\ prep_calls' = prep_calls + 1
    /\ pc' = "eval"
    /\ UNCHANGED <<file, axes, hyperparameter_combinations, locals,
                   file_at_start, eval_log, last_flush, flushes,
                   outcome, prev_outcome, done_at_end, n_at_end, prev_flush, driver>>

\* The for loop takes the next combination and initialize_model returns a model.
TrainOk ==
    /\ pc = "train"
    /\ i <= Len(combinations_to_run)
    /\ train_log' = Append(train_log, combinations_to_run[i])
    /\ pc' = "eval"
    /\ UNCHANGED <<file, axes, hyperparameter_combinations, locals,
                   file_at_start, eval_log, last_flush, flushes,
                   outcome, prev_outcome, done_at_end, n_at_end>>
    /\ UNCHANGED <<history2, driver>>

\* initialize_model raises and a handler skips the combination.
TrainFailsCaught ==
    /\ pc = "train"
    /\ i <= Len(combinations_to_run)
    /\ train_log' = Append(train_log, combinations_to_run[i])
    /\ i' = i + 1
    /\ UNCHANGED <<file, pc, axes, hyperparameter_combinations, existing_results_df,
                   completed_combinations, new_results, combinations_to_run, auc, results_df,
                   file_at_start, eval_log, last_flush, flushes,
                   outcome, prev_outcome, done_at_end, n_at_end>>
    /\ UNCHANGED <<history2, driver>>

\* initialize_model raises; run_hyper has no handler.
TrainFails ==
    /\ pc = "train"
    /\ i <= Len(combinations_to_run)
    /\ train_log' = Append(train_log, combinations_to_run[i])
    /\ Ends("failed")
    /\ UNCHANGED <<file, axes, hyperparameter_combinations, locals,
                   file_at_start, eval_log, last_flush, flushes, prev_outcome>>
    /\ UNCHANGED <<history2, driver>>

\* evaluate_model returns roc_auc_score(y_gt, y_pred).
EvalOk ==
    /\ pc = "eval"
    /\ \E a \in AucVals : auc' = a
    /\ eval_log' = Append(eval_log, combinations_to_run[i])
    /\ pc' = "save"
    /\ UNCHANGED <<file, axes, hyperparameter_combinations, existing_results_df,
                   completed_combinations, new_results, combinations_to_run, i, results_df,
                   file_at_start, train_log, last_flush, flushes,
                   outcome, prev_outcome, done_at_end, n_at_end>>
    /\ UNCHANGED <<history2, driver>>

\* evaluate_model raises (roc_auc_score on labels of one class); no handler.
EvalFails ==
    /\ pc = "eval"
    /\ eval_log' = Append(eval_log, combinations_to_run[i])
    /\ Ends("failed")
    /\ UNCHANGED <<file, axes, hyperparameter_combinations, locals,
                   file_at_start, train_log, last_flush, flushes, prev_outcome>>
    /\ UNCHANGED <<history2, driver>>

\* new_results.append(...), the concat, and to_csv opening results_path for
\* writing: the file is truncated, the text is still in the write buffer (a
\* result file of the full grid is smaller than the buffer, so the text
\* reaches the file in one write when to_csv closes it).
SaveOpen ==
    /\ pc = "save"
    /\ new_results' = Append(new_results, Record(combinations_to_run[i], auc))
    /\ results_df' = concat(existing_results_df, new_results')
    /\ file' = TruncatedFile
    /\ pc' = "write"
    /\ UNCHANGED <<axes, hyperparameter_combinations, existing_results_df,
                   completed_combinations, combinations_to_run, i, auc, history>>
    /\ UNCHANGED <<history2, driver>>

\* A write after which the loop takes the same combination again.
SaveWriteStay ==
    /\ pc = "write"
    /\ file' = to_csv(results_df)
    /\ last_flush' = to_csv(results_df)
    /\ flushes' = flushes + 1
    /\ pc' = "train"
    /\ UNCHANGED <<axes, hyperparameter_combinations, existing_results_df,
                   completed_combinations, new_results, combinations_to_run, i, auc, results_df,
                   file_at_start, train_log, eval_log,
                   outcome, prev_outcome, done_at_end, n_at_end>>
    /\ prev_flush' = last_flush
    /\ UNCHANGED <<prep_calls, driver>>

\* to_csv writes the text and closes the file; the loop goes on.
SaveWrite ==
    /\ pc = "write"
    /\ file' = to_csv(results_df)
    /\ last_flush' = to_csv(results_df)
    /\ flushes' = flushes + 1
    /\ i' = i + 1
    /\ pc' = "train"
    /\ UNCHANGED <<axes, hyperparameter_combinations, existing_results_df,
                   completed_combinations, new_results, combinations_to_run, auc, results_df,
                   file_at_start, train_log, eval_log,
                   outcome, prev_outcome, done_at_end, n_at_end>>
    /\ prev_flush' = last_flush
    /\ UNCHANGED <<prep_calls, driver>>

\* to_csv cannot open results_path for writing: it raises, the file is untouched.
SaveOpenFails ==
    /\ pc = "save"
    /\ Ends("open_failed")
    /\ Gone
    /\ UNCHANGED <<file, axes, hyperparameter_combinations, last_flush, driver>>

\* to_csv has opened results_path and the write raises (storage full): the
\* file stays as the open left it.
WriteFails ==
    /\ pc \in {"write", "final_write"}
    /\ Ends("write_failed")
    /\ Gone
    /\ UNCHANGED <<file, axes, hyperparameter_combinations, last_flush, driver>>

\* A final flush of the records of this invocation alone.
FinalOpenNewOnly ==
    /\ pc = "train"
    /\ i > Len(combinations_to_run)
    /\ results_df' = new_results
    /\ file' = TruncatedFile
    /\ pc' = "final_write"
    /\ UNCHANGED <<axes, hyperparameter_combinations, existing_results_df,
                   completed_combinations, new_results, combinations_to_run, i, auc, history>>
    /\ UNCHANGED <<history2, driver>>

\* The loop is exhausted: the final concat, and to_csv opening results_path.
FinalOpen ==
    /\ pc = "train"
    /\ i > Len(combinations_to_run)
    /\ results_df' = concat(existing_results_df, new_results)
    /\ file' = TruncatedFile
    /\ pc' = "final_write"
    /\ UNCHANGED <<axes, hyperparameter_combinations, existing_results_df,
                   completed_combinations, new_results, combinations_to_run, i, auc, history>>
    /\ UNCHANGED <<history2, driver>>

\* The final to_csv cannot open results_path for writing.
FinalOpenFails ==
    /\ pc = "train"
    /\ i > Len(combinations_to_run)
    /\ Ends("open_failed")
    /\ Gone
    /\ UNCHANGED <<file, axes, hyperparameter_combinations, last_flush, driver>>

\* The final to_csv writes the text and closes the file.
FinalWrite ==
    /\ pc = "final_write"
    /\ file' = to_csv(results_df)
    /\ last_flush' = to_csv(results_df)
    /\ flushes' = flushes + 1
    /\ pc' = "return"
    /\ UNCHANGED <<axes, hyperparameter_combinations, locals,
                   file_at_start, train_log, eval_log,
                   outcome, prev_outcome, done_at_end, n_at_end>>
    /\ prev_flush' = last_flush
    /\ UNCHANGED <<prep_calls, driver>>

\* return results_df
Return ==
    /\ pc = "return"
    /\ Ends("returned")
    /\ UNCHANGED <<file, axes, hyperparameter_combinations, locals,
                   file_at_start, train_log, eval_log, last_flush, flushes, prev_outcome>>
    /\ UNCHANGED <<history2, driver>>

\* The process is terminated; its memory is gone, the file stays as it is.
Kill ==
    /\ pc \notin {"idle", "enum", "enumerated"}
    /\ Ends(CASE pc = "load" -> "killed_early"
              [] pc \in {"write", "final_write"} -> "killed_midwrite"
              [] OTHER -> "killed_between")
    /\ Gone
    /\ UNCHANGED <<file, axes, hyperparameter_combinations, last_flush, driver>>

Next ==
    \/ Prepare
    \/ LoadExisting
    \/ LoadFails
    \/ LoadAbsent
    \/ TrainOk
    \/ TrainFails
    \/ EvalOk
    \/ EvalFails
    \/ SaveOpen
    \/ SaveOpenFails
    \/ SaveWrite
    \/ WriteFails
    \/ FinalOpen
    \/ FinalOpenFails
    \/ FinalWrite
    \/ Return
    \/ Kill

Spec == Init /\ [][Next]_vars

-----------------------------------------------------------------------------
(* The enumerator alone, over every choice of axis lengths *)

AxisChoices ==
    {<<SubSeq(Grid[1], 1, n1), SubSeq(Grid[2], 1, n2), SubSeq(Grid[3], 1, n3),
       SubSeq(Grid[4], 1, n4), SubSeq(Grid[5], 1, n5), SubSeq(Grid[6], 1, n6)>> :
        n1 \in 0..Len(Grid[1]), n2 \in 0..Len(Grid[2]), n3 \in 0..Len(Grid[3]),
        n4 \in 0..Len(Grid[4]), n5 \in 0..Len(Grid[5]), n6 \in 0..Len(Grid[6])}

InitEnum ==
    /\ axes \in AxisChoices
    /\ pc = "enum"
    /\ file = AbsentFile
    /\ hyperparameter_combinations = <<>>
    /\ existing_results_df = <<>>
    /\ completed_combinations = {}
    /\ new_results = <<>>
    /\ combinations_to_run = <<>>
    /\ i = 0
    /\ auc = <<>>
    /\ results_df = <<>>
    /\ file_at_start = file
    /\ train_log = <<>>
    /\ eval_log = <<>>
    /\ last_flush = file
    /\ flushes = 0
    /\ outcome = "none"
    /\ prev_outcome = "none"
    /\ done_at_end = {}
    /\ n_at_end = 0
    /\ prev_flush = file
    /\ prep_calls = 0
    /\ call = 0
    /\ accessed = {}

\* hyperparameter_combinations = list(product(...))
Enumerate ==
    /\ pc = "enum"
    /\ hyperparameter_combinations' = product(axes)
    /\ pc' = "enumerated"
    /\ UNCHANGED <<file, axes, locals, history>>
    /\ UNCHANGED <<history2, driver>>

NextEnum == Enumerate

SpecEnum == InitEnum /\ [][NextEnum]_vars

-----------------------------------------------------------------------------
(* Restart and resume: run_hyper is started again whenever it has ended, and
   an invocation is interrupted only after its first complete flush *)

\* A fresh sweep: no result file yet.
InitLive ==
    /\ Init
    /\ file = AbsentFile

\* The process is terminated after the invocation's first complete flush and
\* before its final one is complete.
KillLive ==
    /\ flushes >= 1
    /\ pc # "return"
    /\ Kill

\* initialize_model raises after the invocation's first complete flush.
TrainFailsLive ==
    /\ flushes >= 1
    /\ TrainFails

\* evaluate_model raises after the invocation's first complete flush.
EvalFailsLive ==
    /\ flushes >= 1
    /\ EvalFails

\* The statements of run_hyper, each going on to the next.
Step ==
    \/ LoadExisting
    \/ LoadFails
    \/ LoadAbsent
    \/ TrainOk
    \/ EvalOk
    \/ SaveOpen
    \/ SaveWrite
    \/ FinalOpen
    \/ FinalWrite
    \/ Return

NextLive ==
    \/ Prepare
    \/ Step
    \/ TrainFailsLive
    \/ EvalFailsLive
    \/ KillLive

\* The sweep is always started again, and a running process goes on to its
\* next statement.
SpecLive == InitLive /\ [][NextLive]_vars /\ WF_vars(Prepare) /\ WF_vars(Step)

\* The same with the process terminated between flushes only, never while
\* to_csv is writing.
KillBetweenFlushes ==
    /\ pc \notin {"write", "final_write"}
    /\ KillLive

NextLiveBetween ==
    \/ Prepare
    \/ Step
    \/ TrainFailsLive
    \/ EvalFailsLive
    \/ KillBetweenFlushes

SpecLiveBetween ==
    InitLive /\ [][NextLiveBetween]_vars /\ WF_vars(Prepare) /\ WF_vars(Step)

-----------------------------------------------------------------------------
(* The module-level driver: the nine run_hyper calls and their result files *)

\* The arguments of the run_hyper calls of the script, in the order of the calls.
DriverCalls ==
    << [dataset_name |-> "Datasets/lending_log_high.xes.gz", logname |-> "lending",
        max_prefix_len |-> 6, addendum |-> "high"],
       [dataset_name |-> "Datasets/lending_log_medium.xes.gz", logname |-> "lending",
        max_prefix_len |-> 6, addendum |-> "medium"],
       [dataset_name |-> "Datasets/lending_log_low.xes.gz", logname |-> "lending",
        max_prefix_len |-> 6, addendum |-> "low"],
       [dataset_name |-> "Datasets/hiring_log_high.xes.gz", logname |-> "hiring",
        max_prefix_len |-> 6, addendum |-> "high"],
       [dataset_name |-> "Datasets/hiring_log_medium.xes.gz", logname |-> "hiring",
        max_prefix_len |-> 6, addendum |-> "medium"],
       [dataset_name |-> "Datasets/hiring_log_low.xes.gz", logname |-> "hiring",
        max_prefix_len |-> 6, addendum |-> "low"],
       [dataset_name |-> "Datasets/renting_log_high.xes.gz", logname |-> "renting",
        max_prefix_len |-> 6, addendum |-> "high"],
       [dataset_name |-> "Datasets/renting_log_medium.xes.gz", logname |-> "renting",
        max_prefix_len |-> 6, addendum |-> "medium"],
       [dataset_name |-> "Datasets/renting_log_low.xes.gz", logname |-> "renting",
        max_prefix_len |-> 6, addendum |-> "low"] >>

\* A path made of the logname alone.
results_path_by_logname(logname, addendum) ==
    "Results/Hyperparameters/BCE/" \o logname \o "_hyperparameter_tuning_results.csv"

\* f"Results/Hyperparameters/BCE/{logname}_{addendum}_hyperparameter_tuning_results.csv"
results_path(logname, addendum) ==
    "Results/Hyperparameters/BCE/" \o logname \o "_" \o addendum
        \o "_hyperparameter_tuning_results.csv"

\* results_path of the call that is running.
PathOfCall(k) == results_path(DriverCalls[k].logname, DriverCalls[k].addendum)

\* The running call does how to its result file.
Access(how) == [path |-> PathOfCall(call), by |-> call, how |-> how]

InitDriver ==
    /\ Init
    /\ file = AbsentFile

\* What the driver steps leave alone: the content of the one store of Spec.
DriverFrame ==
    UNCHANGED <<file, axes, hyperparameter_combinations, existing_results_df,
                completed_combinations, new_results, combinations_to_run, auc, results_df,
                history, history2>>

\* The script reaches its next run_hyper call; the one before has returned.
DriverCall ==
    /\ pc = "idle"
    /\ call < Len(DriverCalls)
    /\ call' = call + 1
    /\ pc' = "exists"
    /\ UNCHANGED <<i, accessed>>
    /\ DriverFrame

\* os.path.exists(results_path): the file is there or it is not.
StoreExists ==
    /\ pc = "exists"
    /\ accessed' = accessed \cup {Access("exists")}
    /\ \E there \in BOOLEAN : pc' = IF there THEN "read" ELSE "loop"
    /\ i' = 1
    /\ UNCHANGED call
    /\ DriverFrame

\* pd.read_csv(results_path); some of the combinations may be completed.
StoreRead ==
    /\ pc = "read"
    /\ accessed' = accessed \cup {Access("read")}
    /\ \E first \in 1..(Len(SweptProduct) + 1) : i' = first
    /\ pc' = "loop"
    /\ UNCHANGED call
    /\ DriverFrame

\* results_df.to_csv(results_path) after a combination.
StoreFlush ==
    /\ pc = "loop"
    /\ i <= Len(SweptProduct)
    /\ accessed' = accessed \cup {Access("write")}
    /\ i' = i + 1
    /\ UNCHANGED <<pc, call>>
    /\ DriverFrame

\* The final results_df.to_csv(results_path), and the return to the script.
StoreFinal ==
    /\ pc = "loop"
    /\ i > Len(SweptProduct)
    /\ accessed' = accessed \cup {Access("write")}
    /\ pc' = "idle"
    /\ UNCHANGED <<i, call>>
    /\ DriverFrame

\* run_hyper raises: the script ends, the calls after this one are never made.
CallFails ==
    /\ pc \in {"read", "loop"}
    /\ pc' = "stopped"
    /\ UNCHANGED <<i, call, accessed>>
    /\ DriverFrame

NextDriver ==
    \/ DriverCall
    \/ StoreExists
    \/ StoreRead
    \/ StoreFlush
    \/ StoreFinal
    \/ CallFails

SpecDriver == InitDriver /\ [][NextDriver]_vars

-----------------------------------------------------------------------------
(* Properties *)

\* The records a load of file f yields.
Stored(f) == IF f.exists /\ CanParse(f) /\ has_key_columns(f) THEN read_csv(f) ELSE <<>>

NoRepeat(s) == \A j, k \in 1..Len(s) : j # k => s[j] # s[k]

\* Position of value v in list l.
Pos(l, v) == CHOOSE k \in 1..Len(l) : l[k] = v

\* The combinations of the product missing from the set done, in enumeration order.
Missing(done) ==
    LET keep(c) == c \notin done IN SelectSeq(hyperparameter_combinations, keep)

Returned == pc = "idle" /\ outcome = "returned"

Loaded == pc \in {"train", "eval", "save", "write", "final_write", "return"}

\* C1 (as claimed): a run that starts with a store holding a strict subset S
\* of the product trains and evaluates exactly the combinations outside S,
\* once each, and leaves S's records, followed by the new ones, in the store,
\* every record of S as it was.
C1_PartialResume ==
    (/\ Returned
     /\ file_at_start.exists
     /\ file_at_start.header = Columns
     /\ completed_of(read_csv(file_at_start)) \subseteq Range(hyperparameter_combinations)
     /\ completed_of(read_csv(file_at_start)) # Range(hyperparameter_combinations))
    => LET S == file_at_start.rows
           pending == Missing(completed_of(read_csv(file_at_start)))
       IN /\ train_log = pending
          /\ eval_log = pending
          /\ Len(file.rows) = Len(S) + Len(pending)
          /\ SubSeq(file.rows, 1, Len(S)) = S
          /\ CombinationsOf(read_csv(file)) =
                CombinationsOf(read_csv(file_at_start)) \o pending

\* C2 (as claimed): a run that follows a completed run trains nothing,
\* evaluates nothing and leaves the content of the store as it found it.
C2_ResumeIdempotent ==
    (Returned /\ prev_outcome = "returned")
    => /\ train_log = <<>>
       /\ eval_log = <<>>
       /\ file = file_at_start

\* C3: after a termination between two flushes, the next invocation loads
\* exactly the records the terminated one held as stored (those it loaded and
\* the N it flushed), holds exactly their combinations as completed, and
\* trains only the others.
C3_CrashBetweenFlushes ==
    (Loaded /\ prev_outcome = "killed_between")
    => /\ completed_combinations = done_at_end
       /\ Len(existing_results_df) = n_at_end
       /\ combinations_to_run = Missing(done_at_end)
       /\ \A k \in 1..Len(train_log) : train_log[k] \notin done_at_end

C3_Witness ==
    /\ pc = "return"
    /\ prev_outcome = "killed_between"
    /\ Len(existing_results_df) > MaxSeed
    /\ Len(train_log) >= 1

\* C4 (as claimed): after a termination at any point, every record the last
\* completed flush left in the store can still be read from it.
C4_CrashLosesAtMostInFlight ==
    (/\ pc = "idle"
     /\ outcome \in {"killed_early", "killed_between", "killed_midwrite"}
     /\ CanParse(last_flush))
    => /\ CanParse(file)
       /\ \A k \in 1..Len(last_flush.rows) :
             \E j \in 1..Len(file.rows) : file.rows[j] = last_flush.rows[k]

\* C5: when an invocation returns, the store holds every combination of the
\* product, and exactly those when the store it started from held none from
\* outside the product (an absent store among them).
C5_Complete ==
    Returned
    => /\ Range(hyperparameter_combinations) \subseteq completed_of(Stored(file))
       /\ (completed_of(Stored(file_at_start)) \subseteq Range(hyperparameter_combinations)
             => completed_of(Stored(file)) = Range(hyperparameter_combinations))

C5_Witness ==
    /\ Returned
    /\ ~file_at_start.exists
    /\ Len(train_log) = Len(hyperparameter_combinations)
    /\ Len(Stored(file)) = Len(hyperparameter_combinations)

\* C6: no store content holds a combination in two records, and no
\* combination is trained that the store held at the start of the invocation
\* or that this invocation trained before.
C6_Unique ==
    /\ NoRepeat(CombinationsOf(Stored(file)))
    /\ NoRepeat(CombinationsOf(Stored(last_flush)))
    /\ NoRepeat(train_log)
    /\ \A k \in 1..Len(train_log) :
          train_log[k] \notin completed_of(Stored(file_at_start))

C6_Witness ==
    /\ pc = "return"
    /\ prev_outcome \in {"killed_between", "failed"}
    /\ Len(existing_results_df) > MaxSeed
    /\ Len(train_log) >= 1
    /\ Len(Stored(file)) > Len(hyperparameter_combinations)

\* C7: what a flush writes starts with the records loaded at the start of the
\* invocation, in their order, followed by the records of this invocation in
\* enumeration order of their combinations.
C7_OrderPreserved ==
    flushes >= 1
    => LET old == Stored(file_at_start)
           cur == Stored(last_flush)
           new == CombinationsOf(SubSeq(cur, Len(old) + 1, Len(cur)))
       IN /\ CanParse(last_flush)
          /\ Len(cur) >= Len(old)
          /\ CombinationsOf(SubSeq(cur, 1, Len(old))) = CombinationsOf(old)
          /\ (file_at_start.header = Columns => SubSeq(cur, 1, Len(old)) = old)
          /\ \A k \in 1..Len(new) : new[k] \in Range(hyperparameter_combinations)
          /\ \A k \in 1..(Len(new) - 1) :
                Pos(hyperparameter_combinations, new[k]) <
                    Pos(hyperparameter_combinations, new[k + 1])

\* The loaded records are two of the product in reverse enumeration order,
\* and two flushes have followed them.
C7_Witness ==
    /\ flushes >= 2
    /\ pc = "train"
    /\ Len(existing_results_df) = 2
    /\ completed_combinations \subseteq Range(hyperparameter_combinations)
    /\ Pos(hyperparameter_combinations, Combination(existing_results_df[1])) >
          Pos(hyperparameter_combinations, Combination(existing_results_df[2]))
    /\ Len(Stored(file)) = 4

\* Number of tuples of the cross product of the lists.
RECURSIVE SizeProduct(_)
SizeProduct(lists) ==
    IF lists = <<>> THEN 1 ELSE Len(Head(lists)) * SizeProduct(Tail(lists))

\* Tuple a comes before tuple b in nested iteration over the axes.
Before(a, b) ==
    \E k \in 1..6 :
        /\ \A j \in 1..(k - 1) : a[j] = b[j]
        /\ Pos(axes[k], a[k]) < Pos(axes[k], b[k])

\* C8: the enumerator yields as many tuples as the product of the axis sizes,
\* pairwise distinct, each with one value of each axis in axis order, in the
\* order of nested iteration with the last axis varying fastest; 144 for the
\* configured grid.
C8_Enumeration ==
    pc = "enumerated"
    => LET out == hyperparameter_combinations
       IN /\ Len(out) = SizeProduct(axes)
          /\ NoRepeat(out)
          /\ \A n \in 1..Len(out) :
                /\ Len(out[n]) = 6
                /\ \A k \in 1..6 : out[n][k] \in Range(axes[k])
          /\ \A n \in 1..(Len(out) - 1) : Before(out[n], out[n + 1])
          /\ (axes = Grid => Len(out) = 144)

C8_Witness ==
    /\ pc = "enumerated"
    /\ axes = Grid
    /\ Len(hyperparameter_combinations) = 144
    /\ hyperparameter_combinations[2] =
          <<1, FALSE, 16, 128, <<0, 0, 0, 0, 1>>, <<0, 4>> >>

\* C9: when training or evaluation of a pending combination fails, the
\* invocation ends there: every pending combination up to the failing one was
\* trained once and none after it, the store holds the loaded records and the
\* records of the combinations before the failing one and none for the failing
\* one, and the next invocation holds exactly those as completed.
C9_FailurePropagates ==
    /\ (pc = "idle" /\ outcome = "failed")
       => /\ i \in 1..Len(combinations_to_run)
          /\ train_log = SubSeq(combinations_to_run, 1, i)
          /\ eval_log \in {train_log, SubSeq(combinations_to_run, 1, i - 1)}
          /\ Len(new_results) = i - 1
          /\ file.exists = (file_at_start.exists \/ i > 1)
          /\ Stored(file) = Stored(to_csv(concat(existing_results_df, new_results)))
          /\ CombinationsOf(Stored(file)) =
                CombinationsOf(existing_results_df) \o SubSeq(combinations_to_run, 1, i - 1)
          /\ combinations_to_run[i] \notin completed_of(Stored(file))
          /\ done_at_end = completed_of(Stored(file))
    /\ (Loaded /\ prev_outcome = "failed")
       => /\ completed_combinations = done_at_end
          /\ Len(existing_results_df) = n_at_end

C9_Witness ==
    /\ pc = "idle"
    /\ outcome = "failed"
    /\ Len(existing_results_df) >= 1
    /\ Len(new_results) >= 1
    /\ Len(eval_log) = Len(train_log)

\* C10: with no result file the load yields no record and an empty completed
\* set and does not fail, so every combination of the product is pending, and
\* trained by the time the invocation returns.
C10_AbsentStore ==
    ~file_at_start.exists
    => /\ outcome # "load_failed"
       /\ Loaded => /\ existing_results_df = <<>>
                    /\ completed_combinations = {}
                    /\ combinations_to_run = hyperparameter_combinations
       /\ Returned => train_log = hyperparameter_combinations

C10_Witness ==
    /\ Returned
    /\ ~file_at_start.exists
    /\ train_log = hyperparameter_combinations
    /\ Len(train_log) = 4

\* A result file that cannot be parsed or lacks one of the seven columns.
Malformed(f) ==
    /\ f.exists
    /\ \/ ~CanParse(f)
       \/ \E k \in 1..Len(Columns) : \A j \in 1..Len(f.header) : f.header[j] # Columns[k]

\* C11 (as claimed): an invocation that finds a result file that is malformed
\* or lacks one of the seven columns, the metric among them, fails at the
\* load: it trains nothing, evaluates nothing, writes nothing and leaves the
\* file as it was.
C11_ParseError ==
    Malformed(file_at_start)
    => /\ pc \in {"idle", "load"}
       /\ train_log = <<>>
       /\ eval_log = <<>>
       /\ flushes = 0
       /\ file = file_at_start

\* The same for a file that is empty or lacks one of the six hyperparameter columns.
C11_KeyColumns ==
    (file_at_start.exists /\ ~(CanParse(file_at_start) /\ has_key_columns(file_at_start)))
    => /\ pc \in {"idle", "load"}
       /\ train_log = <<>>
       /\ eval_log = <<>>
       /\ flushes = 0
       /\ file = file_at_start

\* C12 (as claimed): when a flush fails, in opening the file or in writing
\* it, the invocation ends there, and the store still holds every record of
\* the last flush that succeeded (of the file found at the start, before the
\* first flush).
C12_PersistenceFailure ==
    (/\ pc = "idle"
     /\ outcome \in {"open_failed", "write_failed"}
     /\ CanParse(last_flush))
    => /\ CanParse(file)
       /\ \A k \in 1..Len(last_flush.rows) :
             \E j \in 1..Len(file.rows) : file.rows[j] = last_flush.rows[k]

\* The same for a flush that fails in opening the file.
C12_OpenFailure ==
    (pc = "idle" /\ outcome = "open_failed") => file = last_flush

\* The first n pending combinations.
FirstPending(n) == SubSeq(combinations_to_run, 1, n)

\* C13: the pending combinations are taken one after another in enumeration
\* order, each trained, then evaluated, then flushed; the training of a
\* combination starts only when the flush of the one before it is complete,
\* and by the return each pending combination was trained once and evaluated
\* once.
C13_IterationProtocol ==
    Loaded
    => /\ combinations_to_run = Missing(completed_combinations)
       /\ NoRepeat(combinations_to_run)
       /\ (pc = "train"
             => /\ i \in 1..(Len(combinations_to_run) + 1)
                /\ train_log = FirstPending(i - 1)
                /\ eval_log = FirstPending(i - 1)
                /\ flushes = i - 1)
       /\ (pc = "eval"
             => /\ i \in 1..Len(combinations_to_run)
                /\ train_log = FirstPending(i)
                /\ eval_log = FirstPending(i - 1)
                /\ flushes = i - 1)
       /\ (pc \in {"save", "write"}
             => /\ i \in 1..Len(combinations_to_run)
                /\ train_log = FirstPending(i)
                /\ eval_log = FirstPending(i)
                /\ flushes = i - 1)
       /\ (pc \in {"final_write", "return"}
             => /\ train_log = combinations_to_run
                /\ eval_log = combinations_to_run)
       /\ (flushes \in 1..Len(combinations_to_run)
             => LET cur == Stored(last_flush)
                IN /\ Len(cur) = Len(existing_results_df) + flushes
                   /\ Combination(cur[Len(cur)]) = combinations_to_run[flushes])

C13_Witness ==
    /\ pc = "return"
    /\ Len(existing_results_df) >= 1
    /\ Len(combinations_to_run) >= 3
    /\ train_log = combinations_to_run

\* The latest flush is the one after a pending combination, in an invocation
\* that found no file or a file with all seven columns.
AfterCombinationFlush ==
    /\ Loaded
    /\ flushes \in 1..Len(combinations_to_run)
    /\ ~Malformed(file_at_start)

\* C14 (as claimed): a flush after a pending combination writes the store
\* content there was before it, the file found at the start at the first
\* flush, followed by exactly one record, that of the combination.
C14_CumulativeFlush ==
    AfterCombinationFlush
    => last_flush.rows = prev_flush.rows \o <<format_row(new_results[flushes])>>

\* The k-th flush writes the loaded records followed by the records of the
\* first k pending combinations, and from the second flush on it extends the
\* flush before it by one line.
C14_FromMemory ==
    AfterCombinationFlush
    => /\ last_flush = to_csv(concat(existing_results_df, SubSeq(new_results, 1, flushes)))
       /\ CombinationsOf(SubSeq(new_results, 1, flushes)) = FirstPending(flushes)
       /\ (flushes >= 2
             => last_flush.rows = prev_flush.rows \o <<format_row(new_results[flushes])>>)

\* C15: when the pending combinations are exhausted there is one more flush;
\* what it writes is what the last flush after a combination wrote, and
\* exactly the loaded records when nothing was pending; what run_hyper
\* returns is the collection that flush wrote to the store.
C15_TerminalFlush ==
    pc = "return"
    => /\ flushes = Len(combinations_to_run) + 1
       /\ file = last_flush
       /\ file = to_csv(results_df)
       /\ results_df = concat(existing_results_df, new_results)
       /\ Len(new_results) = Len(combinations_to_run)
       /\ (Len(combinations_to_run) >= 1 => last_flush = prev_flush)
       /\ (Len(combinations_to_run) = 0
             => /\ results_df = existing_results_df
                /\ file = to_csv(existing_results_df))

C15_Witness ==
    /\ pc = "return"
    /\ Len(existing_results_df) >= 1
    /\ Len(combinations_to_run) >= 2
    /\ flushes = Len(combinations_to_run) + 1

\* The final flush of an invocation that had nothing pending.
C15_NothingPending ==
    /\ pc = "return"
    /\ Len(combinations_to_run) = 0
    /\ Len(existing_results_df) >= 4
    /\ flushes = 1

\* Combination c is skipped exactly when a record found at the start has its
\* six values, whatever the record's metric.
SkippedIffStored ==
    \A c \in Range(hyperparameter_combinations) :
        (c \notin Range(combinations_to_run))
            <=> \E k \in 1..Len(file_at_start.rows) :
                    Combination(Stored(file_at_start)[k]) = c

\* The positions of the file found at the start whose combination is not of the product.
ForeignAtStart ==
    {k \in 1..Len(file_at_start.rows) :
        Combination(Stored(file_at_start)[k]) \notin Range(hyperparameter_combinations)}

C16_KeysKept ==
    (Loaded /\ file_at_start.exists /\ ~Malformed(file_at_start))
    => /\ SkippedIffStored
       /\ (Len(combinations_to_run) < Len(hyperparameter_combinations)
             => ForeignAtStart # DOMAIN file_at_start.rows)
       /\ (flushes >= 1
             => \A k \in ForeignAtStart :
                   RowKey(last_flush.rows[k]) = RowKey(file_at_start.rows[k]))

\* C17: an invocation prepares its inputs once, before it loads the store and
\* before it trains anything, however many combinations are pending, none
\* included.
C17_PrepareOnce ==
    /\ (pc \notin {"idle", "enum", "enumerated"} => prep_calls = 1)
    /\ (pc = "idle" /\ outcome \in {"returned", "failed", "load_failed"} => prep_calls = 1)
    /\ (prep_calls = 0
          => /\ pc \in {"idle", "enum", "enumerated"}
             /\ existing_results_df = <<>>
             /\ train_log = <<>>
             /\ flushes = 0)
    /\ (pc = "load"
          => /\ existing_results_df = <<>>
             /\ completed_combinations = {}
             /\ train_log = <<>>)

C17_Witness ==
    /\ pc = "return"
    /\ prep_calls = 1
    /\ Len(train_log) = 4

\* An invocation with nothing pending has prepared its inputs all the same.
C17_NothingPending ==
    /\ Returned
    /\ prep_calls = 1
    /\ combinations_to_run = <<>>
    /\ train_log = <<>>

\* C18 (as claimed): when run_hyper is started again after every end, and an
\* invocation is interrupted only after its first complete flush, eventually
\* an invocation returns with the store holding every combination of the
\* product, each in one record.
C18_EventualCompletion ==
    <>(/\ Returned
       /\ Range(hyperparameter_combinations) \subseteq completed_of(Stored(file))
       /\ NoRepeat(CombinationsOf(Stored(file))))

\* C19: the script calls run_hyper nine times, one call after the other, each
\* with prefix length 6 and a (logname, addendum) pair of its own, so the nine
\* result file paths are pairwise distinct and no result file is read or
\* written by two calls.
C19_StoreIsolation ==
    /\ Len(DriverCalls) = 9
    /\ \A k \in 1..Len(DriverCalls) : DriverCalls[k].max_prefix_len = 6
    /\ \A j, k \in 1..Len(DriverCalls) :
          j # k => /\ <<DriverCalls[j].logname, DriverCalls[j].addendum>> #
                         <<DriverCalls[k].logname, DriverCalls[k].addendum>>
                   /\ PathOfCall(j) # PathOfCall(k)
    /\ call \in 0..Len(DriverCalls)
    /\ \A a \in accessed : a.by \in 1..call
    /\ \A a, b \in accessed : a.path = b.path => a.by = b.by
    /\ \A a \in accessed : a.by < call => [a EXCEPT !.how = "write"] \in accessed

C19_Witness ==
    /\ pc = "idle"
    /\ call = Len(DriverCalls)
    /\ Cardinality({a.path : a \in accessed}) = 9
    /\ \E a \in accessed : a.how = "read"

====
